---- MODULE Spec2Model ----
(***************************************************************************)
(* CNA publishing anomaly analysis (Code/analyze_cna_anomalies.py).        *)
(*                                                                         *)
(* One run of CVEMonitor.run(): load the official CNA list, parse the CVE  *)
(* files, analyse the records (windows, baselines, classification), sort,  *)
(* assemble the report and save it.                                        *)
(*                                                                         *)
(* Representation                                                          *)
(*   - an instant (datetime) is a number of ticks, TicksPerDay ticks to a  *)
(*     day, tick 0 = 2023-01-01 00:00; (year, month) come from a calendar; *)
(*   - None is the empty string for a name and NoneInt for a number;       *)
(*   - avg_monthly is the exact fraction [num, den]; the values an entry   *)
(*     holds after round(x, 2) are integers in hundredths, after           *)
(*     round(x, 1) integers in tenths;                                     *)
(*   - an item of json_files stands for a run of `copies` consecutive      *)
(*     files with the same contents, and the item of cve_data made from it *)
(*     for as many consecutive records; the loop over cve_data handles the *)
(*     iterations of a run in one step;                                    *)
(*   - a dict whose iteration order the code relies on is a sequence of    *)
(*     items in insertion order; a set iterated by the code is consumed in *)
(*     any order.                                                          *)
(*   std_dev, cna_advisory_url and recent_activity_counts do not feed any  *)
(*   other value and are left out of the entries.                          *)
(***************************************************************************)
EXTENDS Integers, Sequences, FiniteSets, TLC

----------------------------------------------------------------------------
(* Bounds of the model *)

\* files of a corpus drawn from the full file domain
MaxFiles == 2
\* files of a corpus of one organization (dense activity)
DeepFiles == 4
\* runs of files of a corpus with bursts of publications
BurstFiles == 4
\* organizations in the official CNA list
MaxCnas == 1

----------------------------------------------------------------------------
(* Program constants *)

TicksPerDay == 2
monitoring_window == 30
baseline_months == 12
Sentinel == 999999
NoneInt == 0 - 1

----------------------------------------------------------------------------
(* Calendar: tick -> (year, month), as datetime.year / datetime.month *)

IsLeap(y) == (y % 4 = 0 /\ y % 100 # 0) \/ y % 400 = 0

DaysInMonth(y, m) ==
    IF m = 2 THEN (IF IsLeap(y) THEN 29 ELSE 28)
    ELSE IF m \in {4, 6, 9, 11} THEN 30 ELSE 31

RECURSIVE YearMonthOfDay(_, _, _)
YearMonthOfDay(d, y, m) ==
    IF d < DaysInMonth(y, m) THEN <<y, m>>
    ELSE IF m = 12 THEN YearMonthOfDay(d - DaysInMonth(y, m), y + 1, 1)
    ELSE YearMonthOfDay(d - DaysInMonth(y, m), y, m + 1)

MonthKey(t) == YearMonthOfDay(t \div TicksPerDay, 2023, 1)

Days(n) == n * TicksPerDay

----------------------------------------------------------------------------
(* Rounding: Python round() of the fraction n/d (d > 0), half to even.    *)
(* The code rounds the float result of its float operations. For           *)
(* baseline_avg and the thresholds the two roundings agree; for            *)
(* deviation_pct they agree unless the exact value lies half way between   *)
(* two tenths, which takes 16 or more baseline records of an organization. *)

RoundHalfEven(n, d) ==
    LET q == n \div d
        r == n % d
    IN  IF 2 * r < d THEN q
        ELSE IF 2 * r > d THEN q + 1
        ELSE IF q % 2 = 0 THEN q ELSE q + 1

Abs(x) == IF x < 0 THEN 0 - x ELSE x

----------------------------------------------------------------------------
(* dict helpers *)

Put(f, k, v) == [x \in (DOMAIN f) \cup {k} |-> IF x = k THEN v ELSE f[x]]

EmptyDict == [x \in {} |-> 0]

Get(f, k, default) == IF k \in DOMAIN f THEN f[k] ELSE default

Range(s) == {s[k] : k \in DOMAIN s}

----------------------------------------------------------------------------
(* Inputs *)

\* 2024-03-15 12:00
NowChoices == {Days(439) + 1}

Lower(s) == IF s = "Ab" THEN "ab" ELSE s

\* items of the downloaded CNA list
CnaItems ==
    { [shortName |-> "Ab", organizationName |-> "Ab Inc", UUID |-> "o1"],
      [shortName |-> "", organizationName |-> "Nameless", UUID |-> "o2"] }

CnaLists == UNION { [1..n -> CnaItems] : n \in 0..MaxCnas }

IsoDate(t) == [kind |-> "iso", t |-> t]
EmptyDate == [kind |-> "empty", t |-> 0]
GarbageDate == [kind |-> "garbage", t |-> 0]

\* instants around the window boundaries of a run at instant n
BoundaryTimes(n) ==
    LET ms == n - Days(monitoring_window)
        bs == n - Days(monitoring_window + baseline_months * 30)
    IN  { bs - 1, bs, ms - 1, ms, n, n + 1 }

\* instants of dense activity: three baseline months and the current window
DeepTimes(n) ==
    LET ms == n - Days(monitoring_window)
    IN  { ms - Days(90), ms - Days(50), ms - Days(10), n - Days(1) }

JsonFile(d, id, sn, n) ==
    [kind |-> "json", datePublished |-> d, assignerOrgId |-> id, shortName |-> sn,
     copies |-> n]

MalformedFile ==
    [kind |-> "malformed", datePublished |-> EmptyDate, assignerOrgId |-> "", shortName |-> "",
     copies |-> 1]

\* the short name the files of an organization carry (none for o2)
ShortNameOf(id) == IF id = "o1" THEN "Ab" ELSE ""

FileDomain(n) ==
    { JsonFile(d, id, ShortNameOf(id), 1) :
        d \in {IsoDate(t) : t \in BoundaryTimes(n)} \cup {EmptyDate, GarbageDate},
        id \in {"o1", "o2"} }
    \cup {MalformedFile}

DeepDomain(n) == { JsonFile(IsoDate(t), "o1", "Ab", 1) : t \in DeepTimes(n) }

\* size of the burst of publications of an organization in the monitoring window
BurstSize(id) == IF id = "o1" THEN 10002 ELSE 20002

\* one baseline record, or a burst in the monitoring window
BurstDomain(n) ==
    { JsonFile(IsoDate(n - Days(monitoring_window + 10)), id, ShortNameOf(id), 1) :
        id \in {"o1", "o2"} }
    \cup { JsonFile(IsoDate(n - Days(1)), id, ShortNameOf(id), BurstSize(id)) :
             id \in {"o1", "o2"} }

Corpora(n) ==
    UNION { [1..k -> FileDomain(n)] : k \in 0..MaxFiles }
    \cup UNION { [1..k -> DeepDomain(n)] : k \in 0..DeepFiles }
    \cup UNION { [1..k -> BurstDomain(n)] : k \in 0..BurstFiles }

----------------------------------------------------------------------------
VARIABLES
    pc,                 \* position in run()
    now,                \* self.now
    cna_org_names,      \* self.cna_org_names: key -> cna_info
    cna_by_uuid,        \* self.cna_by_uuid: uuid -> cna_info
    json_files,         \* the files under cves_dir
    cve_data,           \* list returned by parse_cve_files
    i,                  \* index of the next record of cve_data
    baseline_counts,    \* ordered dict: sequence of [id, dates]
    monitoring_counts,  \* dict id -> count
    last_cve_dates,     \* dict id -> instant
    cna_names,          \* dict id -> short name
    cna_baselines,      \* ordered dict: sequence of baseline profiles
    j,                  \* index of the next profile of cna_baselines
    new_cnas,           \* ids still to be iterated
    inactive_cna_names, \* names still to be iterated
    all_cnas,           \* list of entries
    anomalies,          \* list of entries
    results,            \* report returned by analyze_cna_activity, <<>> before
    saved,              \* report written to the output file, <<>> if none
    ret                 \* value returned by run(): "none", "True", "False"

vars == <<pc, now, cna_org_names, cna_by_uuid, json_files, cve_data, i,
          baseline_counts, monitoring_counts, last_cve_dates, cna_names,
          cna_baselines, j, new_cnas, inactive_cna_names, all_cnas, anomalies,
          results, saved, ret>>

analysisVars == <<i, baseline_counts, monitoring_counts, last_cve_dates, cna_names,
                  cna_baselines, j, new_cnas, inactive_cna_names, all_cnas,
                  anomalies, results>>

Init ==
    /\ pc = "load"
    /\ now \in NowChoices
    /\ cna_org_names = EmptyDict
    /\ cna_by_uuid = EmptyDict
    /\ json_files = <<>>
    /\ cve_data = <<>>
    /\ i = 1
    /\ baseline_counts = <<>>
    /\ monitoring_counts = EmptyDict
    /\ last_cve_dates = EmptyDict
    /\ cna_names = EmptyDict
    /\ cna_baselines = <<>>
    /\ j = 1
    /\ new_cnas = {}
    /\ inactive_cna_names = {}
    /\ all_cnas = <<>>
    /\ anomalies = <<>>
    /\ results = <<>>
    /\ saved = <<>>
    /\ ret = "none"

----------------------------------------------------------------------------
(* load_cna_organization_names *)

CnaInfo(cna) ==
    [org_name |-> IF cna.organizationName # "" THEN cna.organizationName ELSE cna.shortName,
     short_name |-> cna.shortName,
     uuid |-> cna.UUID]

RECURSIVE IndexByName(_, _)
IndexByName(list, names) ==
    IF list = <<>> THEN names
    ELSE LET cna == Head(list)
             indexed == IF cna.shortName # ""
                        THEN Put(Put(names, cna.shortName, CnaInfo(cna)),
                                 Lower(cna.shortName), CnaInfo(cna))
                        ELSE names
         IN  IndexByName(Tail(list), indexed)

RECURSIVE IndexByUuid(_, _)
IndexByUuid(list, uuids) ==
    IF list = <<>> THEN uuids
    ELSE LET cna == Head(list)
             indexed == IF cna.UUID # "" THEN Put(uuids, cna.UUID, CnaInfo(cna)) ELSE uuids
         IN  IndexByUuid(Tail(list), indexed)

\* the list is downloaded and indexed
LoadNames ==
    /\ pc = "load"
    /\ \E cna_list \in CnaLists :
         /\ cna_org_names' = IndexByName(cna_list, cna_org_names)
         /\ cna_by_uuid' = IndexByUuid(cna_list, cna_by_uuid)
    /\ pc' = "parse"
    /\ UNCHANGED <<now, json_files, cve_data, saved, ret>>
    /\ UNCHANGED analysisVars

\* requests is missing or the download raises: the mappings stay empty
LoadNamesFails ==
    /\ pc = "load"
    /\ pc' = "parse"
    /\ UNCHANGED <<now, cna_org_names, cna_by_uuid, json_files, cve_data, saved, ret>>
    /\ UNCHANGED analysisVars

get_cna_info(short_name, assigner_id) ==
    IF short_name \in DOMAIN cna_org_names THEN cna_org_names[short_name]
    ELSE IF short_name # "" /\ Lower(short_name) \in DOMAIN cna_org_names
         THEN cna_org_names[Lower(short_name)]
    ELSE IF assigner_id \in DOMAIN cna_by_uuid THEN cna_by_uuid[assigner_id]
    ELSE [org_name |-> IF short_name # "" THEN short_name ELSE "Unknown",
          short_name |-> short_name,
          uuid |-> assigner_id]

----------------------------------------------------------------------------
(* parse_cve_files *)

CveEntry(file) ==
    [datePublished |-> file.datePublished,
     assignerOrgId |-> file.assignerOrgId,
     assignerShortName |-> IF file.shortName # "" THEN file.shortName ELSE "Unknown",
     copies |-> file.copies]

RECURSIVE ParseFiles(_)
ParseFiles(files) ==
    IF files = <<>> THEN <<>>
    ELSE LET file == Head(files)
         IN  IF file.kind = "json" /\ file.datePublished.kind # "empty"
             THEN <<CveEntry(file)>> \o ParseFiles(Tail(files))
             ELSE ParseFiles(Tail(files))

parse_cve_files ==
    /\ pc = "parse"
    /\ \E files \in Corpora(now) :
         /\ json_files' = files
         /\ cve_data' = ParseFiles(files)
    /\ pc' = "parsed"
    /\ UNCHANGED <<now, cna_org_names, cna_by_uuid, saved, ret>>
    /\ UNCHANGED analysisVars

parse_date(date_str) == IF date_str.kind = "iso" THEN date_str.t ELSE NoneInt

----------------------------------------------------------------------------
(* run: no data *)

RunNoData ==
    /\ pc = "parsed"
    /\ cve_data = <<>>
    /\ ret' = "False"
    /\ pc' = "done"
    /\ UNCHANGED <<now, cna_org_names, cna_by_uuid, json_files, cve_data, saved>>
    /\ UNCHANGED analysisVars

----------------------------------------------------------------------------
(* analyze_cna_activity: date boundaries *)

monitoring_start == now - Days(monitoring_window)
baseline_start == now - Days(monitoring_window + (baseline_months * 30))
baseline_end == monitoring_start

AfterMonitoringStart(date_published) ==
    monitoring_start < date_published /\ date_published <= now

InMonitoringWindow(date_published) ==
    monitoring_start <= date_published /\ date_published <= now

InBaselinePeriod(date_published) ==
    baseline_start <= date_published /\ date_published < baseline_end

\* run() goes on to analyze_cna_activity, which sets up its data structures
AnalyzeStart ==
    /\ pc = "parsed"
    /\ cve_data # <<>>
    /\ i' = 1
    /\ baseline_counts' = <<>>
    /\ monitoring_counts' = EmptyDict
    /\ last_cve_dates' = EmptyDict
    /\ cna_names' = EmptyDict
    /\ pc' = "ingest"
    /\ UNCHANGED <<now, cna_org_names, cna_by_uuid, json_files, cve_data, saved, ret,
                   cna_baselines, j, new_cnas, inactive_cna_names, all_cnas,
                   anomalies, results>>

----------------------------------------------------------------------------
(* analyze_cna_activity: the iterations of "for cve in cve_data" over one run *)

Keys(odict) == {odict[k].id : k \in DOMAIN odict}

\* baseline_counts[assigner_id].append(date_published) on a defaultdict(list),
\* once for each record of the run
AppendDate(odict, id, date, copies) ==
    LET run == [k \in 1..copies |-> date]
    IN  IF id \in Keys(odict)
        THEN [k \in DOMAIN odict |->
                IF odict[k].id = id
                THEN [id |-> id, dates |-> odict[k].dates \o run]
                ELSE odict[k]]
        ELSE Append(odict, [id |-> id, dates |-> run])

LastDateRead(dates, assigner_id, date_published) ==
    Put(dates, assigner_id, date_published)

LastDateAfter(dates, assigner_id, date_published) ==
    IF assigner_id \notin DOMAIN dates \/ date_published > dates[assigner_id]
    THEN Put(dates, assigner_id, date_published)
    ELSE dates

\* monitoring_counts[assigner_id] += 1, once for each record of the run
MonitoringAfter(counts, assigner_id, date_published, copies) ==
    IF InMonitoringWindow(date_published)
    THEN Put(counts, assigner_id, Get(counts, assigner_id, 0) + copies)
    ELSE counts

BaselineAfter(odict, assigner_id, date_published, copies) ==
    IF ~InMonitoringWindow(date_published) /\ InBaselinePeriod(date_published)
    THEN AppendDate(odict, assigner_id, date_published, copies)
    ELSE odict

ProcessCve ==
    /\ pc = "ingest"
    /\ i <= Len(cve_data)
    /\ LET cve == cve_data[i]
           date_published == parse_date(cve.datePublished)
           assigner_id == cve.assignerOrgId
       IN  IF date_published = NoneInt
           THEN UNCHANGED <<baseline_counts, monitoring_counts, last_cve_dates, cna_names>>
           ELSE /\ cna_names' = Put(cna_names, assigner_id, cve.assignerShortName)
                /\ last_cve_dates' = LastDateAfter(last_cve_dates, assigner_id, date_published)
                /\ monitoring_counts' = MonitoringAfter(monitoring_counts, assigner_id, date_published, cve.copies)
                /\ baseline_counts' = BaselineAfter(baseline_counts, assigner_id, date_published, cve.copies)
    /\ i' = i + 1
    /\ UNCHANGED <<pc, now, cna_org_names, cna_by_uuid, json_files, cve_data, saved, ret,
                   cna_baselines, j, new_cnas, inactive_cna_names, all_cnas,
                   anomalies, results>>

----------------------------------------------------------------------------
(* analyze_cna_activity: monthly averages, new and inactive CNAs *)

\* monthly_counts[month_key] += 1 on a defaultdict(int), kept in insertion order
RECURSIVE GroupByMonth(_, _)
GroupByMonth(dates, monthly) ==
    IF dates = <<>> THEN monthly
    ELSE LET month_key == MonthKey(Head(dates))
             grouped ==
                 IF \E k \in DOMAIN monthly : monthly[k].key = month_key
                 THEN [k \in DOMAIN monthly |->
                         IF monthly[k].key = month_key
                         THEN [key |-> month_key, count |-> monthly[k].count + 1]
                         ELSE monthly[k]]
                 ELSE Append(monthly, [key |-> month_key, count |-> 1])
         IN  GroupByMonth(Tail(dates), grouped)

RECURSIVE SumCounts(_)
SumCounts(monthly) ==
    IF monthly = <<>> THEN 0 ELSE Head(monthly).count + SumCounts(Tail(monthly))

AvgOverWindow(monthly) == [num |-> SumCounts(monthly), den |-> baseline_months]

\* sum(monthly_counts.values()) / len(monthly_counts)
AvgMonthly(monthly) == [num |-> SumCounts(monthly), den |-> Len(monthly)]

BaselineProfile(item, names) ==
    LET monthly == GroupByMonth(item.dates, <<>>)
    IN  [id |-> item.id,
         avg_monthly |-> AvgMonthly(monthly),
         short_name |-> Get(names, item.id, "Unknown"),
         monthly_data |-> monthly]

RECURSIVE Baselines(_, _)
Baselines(odict, names) ==
    IF odict = <<>> THEN <<>>
    ELSE LET item == Head(odict)
         IN  IF item.dates # <<>>
             THEN <<BaselineProfile(item, names)>> \o Baselines(Tail(odict), names)
             ELSE Baselines(Tail(odict), names)

BaselineOnly(counts, baselines) == Keys(baselines) \ (DOMAIN counts)

NewCnas(counts, baselines) == (DOMAIN counts) \ Keys(baselines)

SeenCnaNames(counts, baselines, names) ==
    LET all_seen_cna_ids == Keys(baselines) \cup DOMAIN counts
    IN  { Get(names, cna_id, "Unknown") : cna_id \in all_seen_cna_ids } \ {"Unknown"}

InactiveCnaNames(counts, baselines, names) ==
    (DOMAIN cna_org_names) \ SeenCnaNames(counts, baselines, names)

CalculateBaselines ==
    /\ pc = "ingest"
    /\ i > Len(cve_data)
    /\ cna_baselines' = Baselines(baseline_counts, cna_names)
    /\ new_cnas' = NewCnas(monitoring_counts, cna_baselines')
    /\ inactive_cna_names' = InactiveCnaNames(monitoring_counts, cna_baselines', cna_names)
    /\ j' = 1
    /\ all_cnas' = <<>>
    /\ anomalies' = <<>>
    /\ pc' = "entries"
    /\ UNCHANGED <<now, cna_org_names, cna_by_uuid, json_files, cve_data, saved, ret,
                   i, baseline_counts, monitoring_counts, last_cve_dates, cna_names,
                   results>>

----------------------------------------------------------------------------
(* analyze_cna_activity: entries *)

\* avg_monthly * 0.5 and avg_monthly * 2.5, exact
ThresholdLow(avg) == [num |-> avg.num, den |-> avg.den * 2]
ThresholdHigh(avg) == [num |-> avg.num * 5, den |-> avg.den * 2]

\* integer c against fraction r (r.den > 0)
Above(c, r) == c * r.den > r.num

BelowOrEqual(c, r) == c * r.den <= r.num

Below(c, r) == c * r.den < r.num

\* avg_monthly >= 0.5
Meaningful(avg) == 2 * avg.num >= avg.den

AnomalyType(current_count, avg) ==
    IF Above(current_count, ThresholdHigh(avg)) THEN "Growth"
    ELSE IF Below(current_count, ThresholdLow(avg)) /\ Meaningful(avg) THEN "Declining"
    ELSE "None"

StatusUnmapped(anomaly_type) == anomaly_type

Status(anomaly_type) == IF anomaly_type # "None" THEN anomaly_type ELSE "Normal"

\* round(x, 2) in hundredths, round(x, 1) in tenths
Round2(r) == RoundHalfEven(100 * r.num, r.den)

DeviationRatio(current_count, avg) ==
    IF avg.num > 0
    THEN RoundHalfEven(10 * (current_count * avg.den - avg.num), avg.num)
    ELSE 0

\* round(((current_count - avg) / avg * 100) if avg > 0 else 0, 1), in tenths
DeviationPct(current_count, avg) ==
    IF avg.num > 0
    THEN RoundHalfEven(1000 * (current_count * avg.den - avg.num), avg.num)
    ELSE 0

\* (self.now - last_cve_date).days clamped to 0; None without a date
DaysSinceLast(dates, assigner_id) ==
    IF assigner_id \in DOMAIN dates
    THEN LET days_since_last == (now - dates[assigner_id]) \div TicksPerDay
         IN  IF days_since_last < 0 THEN 0 ELSE days_since_last
    ELSE NoneInt

\* monthly_data.get(month_key, 0) on the profile's monthly counts
MonthCount(monthly_data, month_key) ==
    IF \E k \in DOMAIN monthly_data : monthly_data[k].key = month_key
    THEN monthly_data[CHOOSE k \in DOMAIN monthly_data : monthly_data[k].key = month_key].count
    ELSE 0

\* 12 points taken every 30 days from now - 365 days, then the current point;
\* month holds the (year, month) that the label '%b %Y' prints; the label of the
\* current point adds ' (Current)', which is_current tells
generate_13month_timeline(monthly_data, current_count) ==
    LET start_date == now - Days(365)
        Point(n) ==
            LET month_date == start_date + Days(30 * n)
                month_key == MonthKey(month_date)
            IN  [month |-> month_key,
                 count |-> MonthCount(monthly_data, month_key),
                 is_current |-> FALSE]
    IN  [k \in 1..12 |-> Point(k - 1)]
        \o <<[month |-> MonthKey(now),
              count |-> current_count,
              is_current |-> TRUE]>>

BaselineEntry(baseline_info) ==
    LET assigner_id == baseline_info.id
        current_count == Get(monitoring_counts, assigner_id, 0)
        avg_monthly == baseline_info.avg_monthly
    IN  [assigner_id |-> assigner_id,
         cna_name |-> baseline_info.short_name,
         cna_org_name |-> get_cna_info(baseline_info.short_name, assigner_id).org_name,
         status |-> Status(AnomalyType(current_count, avg_monthly)),
         baseline_avg |-> Round2(avg_monthly),
         current_count |-> current_count,
         deviation_pct |-> DeviationPct(current_count, avg_monthly),
         days_since_last_cve |-> DaysSinceLast(last_cve_dates, assigner_id),
         threshold_low |-> Round2(ThresholdLow(avg_monthly)),
         threshold_high |-> Round2(ThresholdHigh(avg_monthly)),
         timeline_13months |->
             generate_13month_timeline(baseline_info.monthly_data, current_count)]

\* one iteration of "for assigner_id, baseline_info in cna_baselines.items()"
ClassifyBaseline ==
    /\ pc = "entries"
    /\ j <= Len(cna_baselines)
    /\ LET cna_entry == BaselineEntry(cna_baselines[j])
       IN  /\ all_cnas' = Append(all_cnas, cna_entry)
           /\ anomalies' = IF cna_entry.status # "Normal"
                           THEN Append(anomalies, cna_entry) ELSE anomalies
    /\ j' = j + 1
    /\ UNCHANGED <<pc, now, cna_org_names, cna_by_uuid, json_files, cve_data, saved, ret,
                   i, baseline_counts, monitoring_counts, last_cve_dates, cna_names,
                   cna_baselines, new_cnas, inactive_cna_names, results>>

NewCnaEntry(assigner_id) ==
    LET short_name == Get(cna_names, assigner_id, "Unknown")
    IN  [assigner_id |-> assigner_id,
         cna_name |-> short_name,
         cna_org_name |-> get_cna_info(short_name, assigner_id).org_name,
         status |-> "Growth",
         baseline_avg |-> 0,
         current_count |-> Get(monitoring_counts, assigner_id, 0),
         deviation_pct |-> Sentinel * 10,
         days_since_last_cve |-> DaysSinceLast(last_cve_dates, assigner_id),
         threshold_low |-> 0,
         threshold_high |-> 0,
         timeline_13months |->
             generate_13month_timeline(<<>>, Get(monitoring_counts, assigner_id, 0))]

\* one iteration of "for assigner_id in new_cnas" (a set: any order)
ProcessNewCna ==
    /\ pc = "entries"
    /\ j > Len(cna_baselines)
    /\ \E assigner_id \in new_cnas :
         /\ new_cnas' = new_cnas \ {assigner_id}
         /\ IF Get(monitoring_counts, assigner_id, 0) = 0
            THEN UNCHANGED <<all_cnas, anomalies>>
            ELSE /\ all_cnas' = Append(all_cnas, NewCnaEntry(assigner_id))
                 /\ anomalies' = Append(anomalies, NewCnaEntry(assigner_id))
    /\ UNCHANGED <<pc, now, cna_org_names, cna_by_uuid, json_files, cve_data, saved, ret,
                   i, baseline_counts, monitoring_counts, last_cve_dates, cna_names,
                   cna_baselines, j, inactive_cna_names, results>>

InactiveEntry(short_name) ==
    [assigner_id |-> "unknown",
     cna_name |-> short_name,
     cna_org_name |-> get_cna_info(short_name, "").org_name,
     status |-> "Inactive",
     baseline_avg |-> 0,
     current_count |-> 0,
     deviation_pct |-> 0,
     days_since_last_cve |-> NoneInt,
     threshold_low |-> 0,
     threshold_high |-> 0,
     timeline_13months |-> generate_13month_timeline(<<>>, 0)]

\* one iteration of "for short_name in inactive_cna_names" (a set: any order)
ProcessInactive ==
    /\ pc = "entries"
    /\ j > Len(cna_baselines)
    /\ new_cnas = {}
    /\ \E short_name \in inactive_cna_names :
         /\ inactive_cna_names' = inactive_cna_names \ {short_name}
         /\ all_cnas' = Append(all_cnas, InactiveEntry(short_name))
    /\ UNCHANGED <<pc, now, cna_org_names, cna_by_uuid, json_files, cve_data, saved, ret,
                   i, baseline_counts, monitoring_counts, last_cve_dates, cna_names,
                   cna_baselines, j, new_cnas, anomalies, results>>

----------------------------------------------------------------------------
(* analyze_cna_activity: sorting and the report *)

\* list.sort(key=..., reverse=True): descending by key, equal keys keep their order
\* (keys[k] is the key of list[k])
SortedDescending(list, keys) ==
    LET n == Len(list)
        Rank(k) == Cardinality({l \in 1..n : keys[l] > keys[k]})
                   + Cardinality({l \in 1..k : keys[l] = keys[k]})
    IN  [p \in 1..n |-> list[CHOOSE k \in 1..n : Rank(k) = p]]

\* lambda x: abs(x['deviation_pct']) if x['deviation_pct'] < 999999 else 999999
AnomalyKey(x) ==
    IF x.deviation_pct < Sentinel * 10 THEN Abs(x.deviation_pct) ELSE Sentinel * 10

DeviationKey(cna) == cna.deviation_pct

sort_key(cna) ==
    IF cna.status = "Inactive" THEN 0 - (Sentinel * 10) ELSE cna.deviation_pct

AnomalyKeys(list) == [k \in DOMAIN list |-> AnomalyKey(list[k])]

SortKeys(list) == [k \in DOMAIN list |-> sort_key(list[k])]

CountStatus(list, status) == Cardinality({k \in DOMAIN list : list[k].status = status})

Metadata(cnas, anoms) ==
    [monitoring_start |-> monitoring_start,
     monitoring_end |-> now,
     baseline_start |-> baseline_start,
     baseline_end |-> baseline_end,
     total_cnas |-> Len(cnas),
     total_anomalies |-> Len(anoms),
     cnas_growth |-> CountStatus(cnas, "Growth"),
     cnas_normal |-> CountStatus(cnas, "Normal"),
     cnas_declining |-> CountStatus(cnas, "Declining"),
     cnas_inactive |-> CountStatus(cnas, "Inactive")]

SortAndAssemble ==
    /\ pc = "entries"
    /\ j > Len(cna_baselines)
    /\ new_cnas = {}
    /\ inactive_cna_names = {}
    /\ anomalies' = SortedDescending(anomalies, AnomalyKeys(anomalies))
    /\ all_cnas' = SortedDescending(all_cnas, SortKeys(all_cnas))
    /\ results' = <<[metadata |-> Metadata(all_cnas', anomalies'),
                     cnas |-> all_cnas',
                     anomalies |-> anomalies']>>
    /\ pc' = "analyzed"
    /\ UNCHANGED <<now, cna_org_names, cna_by_uuid, json_files, cve_data, saved, ret,
                   i, baseline_counts, monitoring_counts, last_cve_dates, cna_names,
                   cna_baselines, j, new_cnas, inactive_cna_names>>

----------------------------------------------------------------------------
(* save_results and the end of run *)

save_results ==
    /\ pc = "analyzed"
    /\ saved' = results
    /\ pc' = "saved"
    /\ UNCHANGED <<now, cna_org_names, cna_by_uuid, json_files, cve_data, ret>>
    /\ UNCHANGED analysisVars

\* the output file cannot be written: the exception leaves run()
SaveFails ==
    /\ pc = "analyzed"
    /\ pc' = "crashed"
    /\ UNCHANGED <<now, cna_org_names, cna_by_uuid, json_files, cve_data, saved, ret>>
    /\ UNCHANGED analysisVars

RunReturns ==
    /\ pc = "saved"
    /\ ret' = "True"
    /\ pc' = "done"
    /\ UNCHANGED <<now, cna_org_names, cna_by_uuid, json_files, cve_data, saved>>
    /\ UNCHANGED analysisVars

Next ==
    \/ LoadNames
    \/ LoadNamesFails
    \/ parse_cve_files
    \/ RunNoData
    \/ AnalyzeStart
    \/ ProcessCve
    \/ CalculateBaselines
    \/ ClassifyBaseline
    \/ ProcessNewCna
    \/ ProcessInactive
    \/ SortAndAssemble
    \/ save_results
    \/ SaveFails
    \/ RunReturns

Spec == Init /\ [][Next]_vars

----------------------------------------------------------------------------
(* Properties *)

EntriesOf(list, id) == {k \in DOMAIN list : list[k].assigner_id = id}

TheEntryOf(list, id) == list[CHOOSE k \in DOMAIN list : list[k].assigner_id = id]

\* the status the classification rules give to count c against mean m
StatusByPrecedence(c, m) ==
    IF 2 * c * m.den > 5 * m.num THEN "Growth"
    ELSE IF 2 * c * m.den < m.num /\ 2 * m.num >= m.den THEN "Declining"
    ELSE "Normal"

\* every classified baseline organization has one entry, with the status of the rules
ClassifiedByPrecedence ==
    \A k \in DOMAIN cna_baselines :
        k < j =>
            LET p == cna_baselines[k]
            IN  /\ Cardinality(EntriesOf(all_cnas, p.id)) = 1
                /\ TheEntryOf(all_cnas, p.id).status =
                       StatusByPrecedence(Get(monitoring_counts, p.id, 0), p.avg_monthly)

\* C1 as stated: every organization with a BaselineProfile gets exactly one status,
\* Growth if c > 2.5*m, else Declining if c < 0.5*m and m >= 0.5, else Normal, and
\* its entry holds threshold_low = 0.5*m and threshold_high = 2.5*m exactly
\* (thresholds in hundredths), with 0 <= threshold_low <= threshold_high.
C1_Original ==
    /\ ClassifiedByPrecedence
    /\ \A k \in DOMAIN cna_baselines :
          k < j =>
            LET m == cna_baselines[k].avg_monthly
                e == TheEntryOf(all_cnas, cna_baselines[k].id)
            IN  /\ e.threshold_low * 2 * m.den = 100 * m.num
                /\ e.threshold_high * 2 * m.den = 500 * m.num
                /\ 0 <= e.threshold_low
                /\ e.threshold_low <= e.threshold_high

\* C1 amended: the status follows the precedence Growth if c > 2.5*m, else
\* Declining if c < 0.5*m and m >= 0.5, else Normal; the entry's threshold_low
\* and threshold_high are 0.5*m and 2.5*m rounded to two decimals (within half
\* a hundredth of the exact value), so 0 <= threshold_low <= threshold_high.
C1_Amended ==
    /\ ClassifiedByPrecedence
    /\ \A k \in DOMAIN cna_baselines :
          k < j =>
            LET m == cna_baselines[k].avg_monthly
                e == TheEntryOf(all_cnas, cna_baselines[k].id)
            IN  /\ Abs(e.threshold_low * 2 * m.den - 100 * m.num) <= m.den
                /\ Abs(e.threshold_high * 2 * m.den - 500 * m.num) <= m.den
                /\ 0 <= e.threshold_low
                /\ e.threshold_low <= e.threshold_high

\* a mean of 4/3 classified: the thresholds 0.666... and 3.333... are held as 0.67 and 3.33
C1_Witness ==
    /\ pc = "done"
    /\ \E k \in DOMAIN all_cnas :
          /\ all_cnas[k].status = "Declining"
          /\ all_cnas[k].baseline_avg = 133
          /\ all_cnas[k].threshold_low = 67
          /\ all_cnas[k].threshold_high = 333

----------------------------------------------------------------------------
(* Records of the corpus, counted from cve_data *)

Usable(cve) == parse_date(cve.datePublished) # NoneInt

OrgIds == {cve_data[k].assignerOrgId : k \in DOMAIN cve_data}

\* number of records that the items of cve_data at the indices in S stand for
RecordCount(S) ==
    LET upto[k \in 0..Len(cve_data)] ==
            IF k = 0 THEN 0
            ELSE upto[k - 1] + (IF k \in S THEN cve_data[k].copies ELSE 0)
    IN  upto[Len(cve_data)]

\* indices of the first n items of cve_data
Read(n) == {k \in DOMAIN cve_data : k <= n}

WindowStart == now - Days(monitoring_window)

IsCurrent(cve) ==
    /\ Usable(cve)
    /\ WindowStart <= cve.datePublished.t
    /\ cve.datePublished.t <= now

IsBaseline(cve) ==
    /\ Usable(cve)
    /\ WindowStart - Days(baseline_months * 30) <= cve.datePublished.t
    /\ cve.datePublished.t < WindowStart

Ingesting == pc \notin {"load", "parse", "parsed"}

Ingested == Ingesting /\ i > Len(cve_data)

\* C2 as stated: an Inactive entry is only emitted for a name of the official list
\* that no parseable record of the corpus carries.
C2_Claim ==
    \A k \in DOMAIN all_cnas :
        all_cnas[k].status = "Inactive" =>
            /\ all_cnas[k].cna_name \in DOMAIN cna_org_names
            /\ \A r \in DOMAIN cve_data :
                  Usable(cve_data[r]) => cve_data[r].assignerShortName # all_cnas[k].cna_name

\* two entries stand for one organization
SameOrganization(a, b) ==
    IF a.status # "Inactive" /\ b.status # "Inactive"
    THEN a.assigner_id = b.assigner_id
    ELSE IF a.status = "Inactive" /\ b.status = "Inactive"
    THEN cna_org_names[a.cna_name] = cna_org_names[b.cna_name]
    ELSE IF a.status = "Inactive"
    THEN get_cna_info(b.cna_name, b.assigner_id) = cna_org_names[a.cna_name]
    ELSE get_cna_info(a.cna_name, a.assigner_id) = cna_org_names[b.cna_name]

\* C3 as stated: no organization is represented by two entries of all_entries.
C3_Claim ==
    results # <<>> =>
        \A k, l \in DOMAIN results[1].cnas :
            k # l => ~SameOrganization(results[1].cnas[k], results[1].cnas[l])

NoUsableRecords == \A k \in DOMAIN cve_data : ~Usable(cve_data[k])

\* C4 as stated: without a usable record run() returns False and writes no report;
\* run() returns True only after analysing at least one usable record and saving.
C4_Claim ==
    Ingesting \/ pc = "parsed" =>
        /\ NoUsableRecords => saved = <<>> /\ ret # "True"
        /\ NoUsableRecords /\ pc = "done" => ret = "False"
        /\ ret = "True" => ~NoUsableRecords /\ saved # <<>>

BaselineDates(id) ==
    IF id \in Keys(baseline_counts)
    THEN baseline_counts[CHOOSE k \in DOMAIN baseline_counts : baseline_counts[k].id = id].dates
    ELSE <<>>

\* C5: of the records read so far, those counted as current are exactly the ones
\* with monitoring_start <= published_at <= now, those counted as baseline exactly
\* the ones with baseline_start <= published_at < baseline_end, no record is in
\* both counts, and the baseline window ends where the monitoring window starts.
C5_Windows ==
    Ingesting =>
        /\ baseline_end = monitoring_start
        /\ baseline_start = monitoring_start - Days(baseline_months * 30)
        /\ \A id \in OrgIds :
              LET current == {k \in Read(i - 1) :
                                cve_data[k].assignerOrgId = id /\ IsCurrent(cve_data[k])}
                  baseline == {k \in Read(i - 1) :
                                cve_data[k].assignerOrgId = id /\ IsBaseline(cve_data[k])}
              IN  /\ Get(monitoring_counts, id, 0) = RecordCount(current)
                  /\ Len(BaselineDates(id)) = RecordCount(baseline)
                  /\ current \cap baseline = {}
        /\ DOMAIN monitoring_counts \subseteq OrgIds
        /\ Keys(baseline_counts) \subseteq OrgIds

\* a record exactly at monitoring_start (counted as current) and a record of the
\* same organization after now (counted in neither window) have been read
C5_Witness ==
    /\ Ingested
    /\ \E id \in DOMAIN monitoring_counts :
          /\ monitoring_counts[id] = 1
          /\ last_cve_dates[id] = now + 1
    /\ \E k \in DOMAIN cve_data :
          Usable(cve_data[k]) /\ cve_data[k].datePublished.t = monitoring_start
    /\ \E k \in DOMAIN cve_data :
          Usable(cve_data[k]) /\ cve_data[k].datePublished.t = now + 1

ProfilesBuilt == Ingested /\ pc # "ingest"

\* C6: an organization has a BaselineProfile iff it has a baseline-window record,
\* and mean_monthly times the number of distinct (year, month) of its
\* baseline-window records equals the number of those records.
C6_MeanOverActiveMonths ==
    ProfilesBuilt =>
        /\ Keys(cna_baselines) \subseteq OrgIds
        /\ \A id \in OrgIds :
              LET baseline == {k \in DOMAIN cve_data :
                                cve_data[k].assignerOrgId = id /\ IsBaseline(cve_data[k])}
                  total == RecordCount(baseline)
                  months == { MonthKey(cve_data[k].datePublished.t) : k \in baseline }
              IN  /\ id \in Keys(cna_baselines) <=> total >= 1
                  /\ \A k \in DOMAIN cna_baselines :
                        cna_baselines[k].id = id =>
                            cna_baselines[k].avg_monthly.num * Cardinality(months)
                              = total * cna_baselines[k].avg_monthly.den

\* a profile of three records in two months: mean 3/2
C6_Witness ==
    /\ ProfilesBuilt
    /\ \E k \in DOMAIN cna_baselines :
          /\ cna_baselines[k].avg_monthly = [num |-> 3, den |-> 2]
          /\ Len(cna_baselines[k].monthly_data) = 2

ReportBuilt == results # <<>>

\* C7: an organization id without baseline-window record and with a monitoring
\* count above 0 has exactly one entry: Growth, baseline_avg 0, both thresholds 0,
\* deviation_pct the sentinel 999999; the entry is in the anomalies list.
C7_NewCnaIsGrowth ==
    ReportBuilt =>
        \A id \in OrgIds :
            LET current == {k \in DOMAIN cve_data :
                              cve_data[k].assignerOrgId = id /\ IsCurrent(cve_data[k])}
                baseline == {k \in DOMAIN cve_data :
                              cve_data[k].assignerOrgId = id /\ IsBaseline(cve_data[k])}
            IN  RecordCount(baseline) = 0 /\ RecordCount(current) > 0 =>
                    /\ Cardinality(EntriesOf(results[1].cnas, id)) = 1
                    /\ Cardinality(EntriesOf(results[1].anomalies, id)) = 1
                    /\ TheEntryOf(results[1].anomalies, id) = TheEntryOf(results[1].cnas, id)
                    /\ LET e == TheEntryOf(results[1].cnas, id)
                       IN  /\ e.status = "Growth"
                           /\ e.baseline_avg = 0
                           /\ e.threshold_low = 0
                           /\ e.threshold_high = 0
                           /\ e.deviation_pct = Sentinel * 10
                           /\ e.current_count = RecordCount(current)

\* two organizations without baseline, both active in the monitoring window
C7_Witness ==
    /\ ReportBuilt
    /\ Len(cna_baselines) = 0
    /\ Len(results[1].anomalies) = 2
    /\ results[1].anomalies[1].current_count = 1
    /\ results[1].anomalies[2].deviation_pct = Sentinel * 10

\* C8: in all_entries no Inactive entry precedes a non-Inactive entry, the
\* non-Inactive entries are in non-increasing order of deviation_pct, and sorting
\* the list again by the same key leaves it unchanged.
C8_AllEntriesOrder ==
    ReportBuilt =>
        LET cnas == results[1].cnas
        IN  /\ \A k, l \in DOMAIN cnas :
                  k < l /\ cnas[k].status = "Inactive" => cnas[l].status = "Inactive"
            /\ \A k, l \in DOMAIN cnas :
                  k < l /\ cnas[k].status # "Inactive" /\ cnas[l].status # "Inactive"
                    => cnas[k].deviation_pct >= cnas[l].deviation_pct
            /\ SortedDescending(cnas, SortKeys(cnas)) = cnas

\* a Declining entry (built first) sorted below a Growth entry and above an
\* Inactive entry, whose deviation_pct of 0 is higher than its own
C8_Witness ==
    /\ ReportBuilt
    /\ Len(results[1].cnas) >= 3
    /\ results[1].cnas[1].status = "Growth"
    /\ results[1].cnas[2].status = "Declining"
    /\ results[1].cnas[2].deviation_pct < 0
    /\ results[1].cnas[3].status = "Inactive"

\* anomalies holds exactly the entries of all_entries that are Growth or Declining
AnomaliesAreTheFlagged ==
    LET cnas == results[1].cnas
        anoms == results[1].anomalies
        meta == results[1].metadata
    IN  /\ Range(anoms) = {e \in Range(cnas) : e.status \notin {"Normal", "Inactive"}}
        /\ Len(anoms) = Cardinality({k \in DOMAIN cnas :
                                        cnas[k].status \notin {"Normal", "Inactive"}})
        /\ \A k \in DOMAIN anoms : anoms[k].status \in {"Growth", "Declining"}
        /\ meta.total_anomalies = Len(anoms)
        /\ meta.total_anomalies = meta.cnas_growth + meta.cnas_declining

\* C9 as stated: anomalies is exactly the Growth and Declining entries of
\* all_entries, total_anomalies = cnas_growth + cnas_declining, and the list is in
\* non-increasing order of abs(deviation_pct) (the sentinel 999999 counted as such).
C9_Claim ==
    ReportBuilt =>
        LET anoms == results[1].anomalies
        IN  /\ AnomaliesAreTheFlagged
            /\ \A k, l \in DOMAIN anoms :
                  k < l => Abs(anoms[k].deviation_pct) >= Abs(anoms[l].deviation_pct)

\* C10: every entry has one of the four statuses, the four status counts of the
\* metadata add up to total_cnas = length of all_entries, and an Inactive entry
\* has current_count = 0 and baseline_avg = 0.
C10_StatusTotal ==
    /\ \A k \in DOMAIN all_cnas :
          /\ all_cnas[k].status \in {"Growth", "Normal", "Declining", "Inactive"}
          /\ all_cnas[k].status = "Inactive" =>
                all_cnas[k].current_count = 0 /\ all_cnas[k].baseline_avg = 0
    /\ ReportBuilt =>
          LET meta == results[1].metadata
          IN  /\ meta.total_cnas = Len(results[1].cnas)
              /\ meta.cnas_growth + meta.cnas_normal + meta.cnas_declining
                    + meta.cnas_inactive = meta.total_cnas
    /\ saved # <<>> => saved = results

\* a saved report with a Growth, a Declining and an Inactive entry
C10_Witness ==
    /\ saved # <<>>
    /\ saved[1].metadata.cnas_growth = 1
    /\ saved[1].metadata.cnas_declining = 1
    /\ saved[1].metadata.cnas_inactive >= 1
    /\ saved[1].metadata.total_cnas >= 3

----------------------------------------------------------------------------
(* The timeline *)

\* records of organization id in the baseline window published in month month_key
BaselineInMonth(id, month_key) ==
    {k \in DOMAIN cve_data :
        /\ cve_data[k].assignerOrgId = id
        /\ IsBaseline(cve_data[k])
        /\ MonthKey(cve_data[k].datePublished.t) = month_key}

\* C11 as stated: every entry has a timeline of exactly 13 points: 12 points
\* with is_current false, oldest first, taken at instants 30 days apart that span
\* the baseline window from baseline_start on, each holding the number of
\* baseline-window records of the organization in that instant's calendar month
\* (0 without any), then one point with is_current true holding current_count.
C11_Claim ==
    \A e \in Range(all_cnas) :
        /\ Len(e.timeline_13months) = 13
        /\ \A k \in 1..12 :
              LET month_key == MonthKey(WindowStart - Days(baseline_months * 30)
                                          + Days(30 * (k - 1)))
              IN  /\ ~e.timeline_13months[k].is_current
                  /\ e.timeline_13months[k].month = month_key
                  /\ e.timeline_13months[k].count =
                         RecordCount(BaselineInMonth(e.assigner_id, month_key))
        /\ e.timeline_13months[13].is_current
        /\ e.timeline_13months[13].count = e.current_count

----------------------------------------------------------------------------
(* Repeatability *)

\* the orders in which a run can iterate the set S
IterationOrders(S) == {order \in [1..Cardinality(S) -> S] : Range(order) = S}

\* the report of the run on the inputs of this state that iterates the
\* organizations without baseline in new_order and the inactive names in
\* inactive_order
ReportOfRun(new_order, inactive_order) ==
    LET Flagged(cna_entry) == cna_entry.status # "Normal"
        Active(assigner_id) == Get(monitoring_counts, assigner_id, 0) # 0
        baseline_entries == [k \in DOMAIN cna_baselines |-> BaselineEntry(cna_baselines[k])]
        active_order == SelectSeq(new_order, Active)
        new_entries == [k \in DOMAIN active_order |-> NewCnaEntry(active_order[k])]
        inactive_entries == [k \in DOMAIN inactive_order |-> InactiveEntry(inactive_order[k])]
        unsorted_cnas == baseline_entries \o new_entries \o inactive_entries
        unsorted_anomalies == SelectSeq(baseline_entries, Flagged) \o new_entries
        sorted_cnas == SortedDescending(unsorted_cnas, SortKeys(unsorted_cnas))
        sorted_anomalies ==
            SortedDescending(unsorted_anomalies, AnomalyKeys(unsorted_anomalies))
    IN  [metadata |-> Metadata(sorted_cnas, sorted_anomalies),
         cnas |-> sorted_cnas,
         anomalies |-> sorted_anomalies]

\* C12 as stated: two runs on identical inputs (same records, same name mapping,
\* same now) produce identical reports, order of all_entries and anomalies
\* included: the report of this run is the report of every run on its inputs,
\* whatever order the sets of no-baseline organizations and of inactive names
\* are iterated in.
C12_Claim ==
    ReportBuilt =>
        \A new_order \in IterationOrders(NewCnas(monitoring_counts, cna_baselines)) :
            \A inactive_order \in IterationOrders(
                    InactiveCnaNames(monitoring_counts, cna_baselines, cna_names)) :
                ReportOfRun(new_order, inactive_order) = results[1]

----------------------------------------------------------------------------
(* Days since the last publication *)

\* instants of the parseable records of organization id, anywhere in the corpus
PublishedAt(id) ==
    {cve_data[k].datePublished.t :
        k \in {r \in DOMAIN cve_data :
                 Usable(cve_data[r]) /\ cve_data[r].assignerOrgId = id}}

Latest(instants) == CHOOSE t \in instants : \A u \in instants : u <= t

\* C13: every entry that is not Inactive has a days_since_last_cve that is not
\* None, not negative, and the whole days from the latest parseable record of
\* its organization to now, 0 when that record is dated after now; the latest is
\* taken over all records of the organization, in a window or not. Every
\* Inactive entry has None.
C13_DaysSinceLatest ==
    \A e \in Range(all_cnas) :
        IF e.status = "Inactive"
        THEN e.days_since_last_cve = NoneInt
        ELSE /\ PublishedAt(e.assigner_id) # {}
             /\ e.days_since_last_cve # NoneInt
             /\ e.days_since_last_cve >= 0
             /\ LET latest == Latest(PublishedAt(e.assigner_id))
                IN  e.days_since_last_cve =
                        IF latest >= now THEN 0
                        ELSE (now - latest) \div TicksPerDay

\* an organization whose latest record is dated after now, outside both windows,
\* and whose only record of the monitoring window is 30 days old: 0 days
C13_Witness ==
    \E e \in Range(all_cnas) :
        /\ e.status # "Inactive"
        /\ e.days_since_last_cve = 0
        /\ PublishedAt(e.assigner_id) = {WindowStart, now + 1}

----------------------------------------------------------------------------
(* The least mean *)

\* C14: every profile has a mean of at least 1, so that the guards
\* avg_monthly >= 0.5 and avg_monthly > 0 hold for every profile; every
\* organization with a profile and current_count 0 is Declining with
\* deviation_pct -100 (in tenths), and no entry has a deviation_pct below -100.
C14_MeanAtLeastOne ==
    ProfilesBuilt =>
        /\ \A k \in DOMAIN cna_baselines :
              LET m == cna_baselines[k].avg_monthly
              IN  /\ m.den > 0
                  /\ m.num >= m.den
                  /\ 2 * m.num >= m.den
                  /\ m.num > 0
                  /\ k < j =>
                        LET e == TheEntryOf(all_cnas, cna_baselines[k].id)
                        IN  e.current_count = 0 =>
                                /\ e.status = "Declining"
                                /\ e.deviation_pct = 0 - 1000
        /\ \A e \in Range(all_cnas) : e.deviation_pct >= 0 - 1000

\* a profile with the least mean, one record in one month, and no record in
\* the monitoring window
C14_Witness ==
    /\ ProfilesBuilt
    /\ \E k \in DOMAIN cna_baselines :
          /\ k < j
          /\ cna_baselines[k].avg_monthly = [num |-> 1, den |-> 1]
          /\ LET e == TheEntryOf(all_cnas, cna_baselines[k].id)
             IN  /\ e.current_count = 0
                 /\ e.status = "Declining"
                 /\ e.deviation_pct = 0 - 1000

====
